---- MODULE Spec2Model ----
(***************************************************************************)
(* State-machine model of the browser / camera tool server                 *)
(* src/universal_assistant/servers/computer_control/control.py.            *)
(*                                                                         *)
(* The server runs its async tools on one asyncio event loop.  A tool runs *)
(* atomically from one suspension point (an await that performs I/O) to    *)
(* the next; every action below is one such segment.  An await of a        *)
(* coroutine that returns without suspending (initialize_browser once      *)
(* PLAYWRIGHT is set, initialize_camera once the device is open) is part   *)
(* of the caller's segment.                                                *)
(***************************************************************************)
EXTENDS Integers, Sequences, FiniteSets, TLC

VARIABLES
    PLAYWRIGHT,   \* global PLAYWRIGHT: None or the id of a Playwright instance
    BROWSER,      \* global BROWSER: None or the id of a browser instance
    CONTEXT,      \* global CONTEXT: None or the id of a browser context
    ctxPages,     \* context id -> its pages in creation order (context.pages)
    CAMERA,       \* global CAMERA: None, a VideoCapture that is not opened, or
                  \* an opened one
    devices,      \* number of opened VideoCapture instances not yet released
    CAMERA_LOCK,  \* global CAMERA_LOCK: None when free, else the call slot of
                  \* the call that is inside `with CAMERA_LOCK`
    images,       \* names of the files written to the image directory
    nStarted,     \* number of Playwright instances constructed so far
    calls,        \* call slot -> the tool call running in it
    nCalls,       \* number of calls made so far, where the specification counts
    history,      \* whether calls record `pre` and `prev` (history variables)
    prev,         \* the tool call that completed last: its name, the text it
                  \* returned, the number of pages open when it was called and
                  \* the number of devices it released
    hook,         \* the finally block of __main__ (lines 321-328)
    stopped       \* Playwright instance -> the number of times it was stopped

session == <<PLAYWRIGHT, BROWSER, CONTEXT, nStarted>>

browser == <<PLAYWRIGHT, BROWSER, CONTEXT, nStarted, ctxPages>>

camera == <<CAMERA, images, CAMERA_LOCK, devices>>

shutdown == <<hook, stopped>>

vars == <<PLAYWRIGHT, BROWSER, CONTEXT, nStarted, ctxPages, CAMERA, images,
          CAMERA_LOCK, devices, calls, prev, nCalls, history, hook, stopped>>

(***************************************************************************)
(* Program constants and model bounds                                      *)
(***************************************************************************)
MAX_WINDOWS == 5
SEARCH_URL == "https://www.bing.com/search?q="
TOP_RESULTS == 5

\* number of tool calls that can be in flight at the same time
NumProcs == 2

\* number of calls made in a run of the concurrent specifications
MaxConcCalls == 3

\* number of image files a run writes
MaxImages == 2

\* number of calls made in a run of the concurrent camera specification
MaxCamCalls == 2

\* line 43: warm-up reads of initialize_camera
WARMUP_READS == 10

Procs == 1..NumProcs
\* every initialization that constructs a session passed the PLAYWRIGHT is
\* None test before any of them assigned it: at most one per call slot
CtxIds == 1..NumProcs
Queries == {"cats", "dogs"}
None == 0
BLANK == "about:blank"

BrowserTools == {"open_new_window", "search_web_on_browser",
                 "new_window_and_search", "close_current_window",
                 "close_all_windows", "get_window_count"}
QueryTools == {"search_web_on_browser", "new_window_and_search"}
CameraTools == {"capture_camera", "close_camera"}

\* what the steps of lines 216-238 can do: the retained read fails, the
\* directory or the file cannot be written (an exception), the frame
\* cannot be encoded, or all succeed
CaptureOutcomes == {"read_fail", "save_error", "encode_fail", "ok"}

(***************************************************************************)
(* Return values.  A tool call ends with a string ("str") or with an       *)
(* exception leaving the tool function ("exc").  A search result is the    *)
(* f-string of line 137: its fixed text, the query and the titles; a       *)
(* capture result that of line 243: its fixed text and the file name.      *)
(***************************************************************************)
Str(m) == [kind |-> "str", msg |-> m, arg |-> "", titles |-> <<>>]
Exc(m) == [kind |-> "exc", msg |-> m, arg |-> "", titles |-> <<>>]
NoRet == [kind |-> "none", msg |-> "", arg |-> "", titles |-> <<>>]

NotInitMsg == "Browser context is not initialized."
LimitMsg == "Maximum number of browser windows reached."
OpenedMsg == "Opened a new window."
NoWindowsMsg == "No open windows to close."
ClosedMsg == "Closed the current window."
ClosedAllMsg == "Closed all browser windows."

\* line 200: f"Currently {len(CONTEXT.pages)} window(s) open."
CountMsg(n) == "Currently " \o ToString(n) \o " window(s) open."

\* results[:5]
Take(s, n) == IF Len(s) <= n THEN s ELSE SubSeq(s, 1, n)

\* line 137
SearchResult(query, results) ==
    [kind |-> "str", msg |-> "Searching for {query}. Top results are: ",
     arg |-> query, titles |-> Take(results, TOP_RESULTS)]

\* line 134: SEARCH_URL + query
SearchUrl(query) == SEARCH_URL \o query

\* The web: the "h2 a" texts of the document a page shows (line 136).  The
\* result page of "cats" has more than five headings, that of "dogs" fewer.
Titles(url) ==
    IF url = SearchUrl("cats") THEN <<"c1", "c2", "c3", "c4", "c5", "c6">>
    ELSE IF url = SearchUrl("dogs") THEN <<"d1", "d2">>
    ELSE <<>>

(***************************************************************************)
(* Call slots                                                              *)
(***************************************************************************)
NoPrev == [op |-> "none", msg |-> "", n |-> 0, released |-> 0]

NoPre == [pages |-> <<>>, cam |-> "None", images |-> {}, prev |-> NoPrev]

\* A call slot: the tool and its argument, where the call is, what it
\* returned, and its locals.  Of a camera call the slot also keeps what
\* VideoCapture(0) and the warm-up did (dev), the number of frames the call
\* read from the opened device (reads), whether another call read from the
\* device after this call's first warm-up read (intr), and whether this
\* call read again after that (overlap).
Idle == [op |-> "none", q |-> "", pc |-> "idle", ret |-> NoRet, pre |-> NoPre,
         stack |-> <<>>, inst |-> None, ctx |-> None, page |-> None,
         iter |-> <<>>, i |-> 0, released |-> 0, dev |-> "untried",
         reads |-> 0, intr |-> FALSE, overlap |-> FALSE]

\* CONTEXT.pages of context c (a copy of the context's page list)
PagesOf(pools, c) == IF c = None THEN <<>> ELSE pools[c]

Pages(c) == PagesOf(ctxPages, c)

Last(s) == s[Len(s)]

PageIds(s) == {s[i].id : i \in 1..Len(s)}

(***************************************************************************)
(* Page objects.  A Page is known by its identity alone: a call that holds *)
(* a page across a suspension (lines 133, 169, 184) holds the object.  The *)
(* open pages are numbered 1, 2, ... in the order of the contexts' page    *)
(* lists, and every reference to a page that has closed is CLOSED: a       *)
(* closed page never opens again, so nothing tells two of them apart.      *)
(***************************************************************************)
CLOSED == -1

RECURSIVE Offset(_, _)
Offset(pools, c) ==
    IF c = 1 THEN 0 ELSE Offset(pools, c - 1) + Len(pools[c - 1])

\* identity of a newly created Page object
FreshId == Offset(ctxPages, NumProcs) + Len(ctxPages[NumProcs]) + 1

IsOpen(id) == \E c \in CtxIds : id \in PageIds(ctxPages[c])

\* the number a page known as `id` gets when the pools are `pools`
Rank(pools, id) ==
    IF id = None THEN None
    ELSE IF \E c \in CtxIds : id \in PageIds(pools[c])
    THEN LET c == CHOOSE c \in CtxIds : id \in PageIds(pools[c])
             i == CHOOSE i \in 1..Len(pools[c]) : pools[c][i].id = id
         IN Offset(pools, c) + i
    ELSE CLOSED

RenumberPools(pools) ==
    [c \in CtxIds |->
        [i \in 1..Len(pools[c]) |->
            [pools[c][i] EXCEPT !.id = Offset(pools, c) + i]]]

RenumberCalls(pools, cs) ==
    [p \in Procs |->
        [cs[p] EXCEPT !.page = Rank(pools, @),
                      !.iter = [j \in 1..Len(@) |-> Rank(pools, @[j])]]]

\* the pools and the calls after a step that opened or closed a page
Commit(pools, cs) ==
    /\ ctxPages' = RenumberPools(pools)
    /\ calls' = RenumberCalls(pools, cs)

\* the page leaves its context's page list when it closes
RemovePage(pools, id) ==
    [c \in CtxIds |-> SelectSeq(pools[c], LAMBDA pg : pg.id # id)]

Navigate(pools, id, url) ==
    [c \in CtxIds |->
        [i \in 1..Len(pools[c]) |->
            IF pools[c][i].id = id THEN [pools[c][i] EXCEPT !.url = url]
            ELSE pools[c][i]]]

\* the call returns (or raises) r: the slot keeps op, q, pre and r
Done(s, r) == [s EXCEPT !.pc = "done", !.ret = r, !.stack = <<>>,
                        !.inst = None, !.ctx = None, !.page = None,
                        !.iter = <<>>, !.i = 0]

(***************************************************************************)
(* The tools' code between suspension points.  s is the call's slot, c the *)
(* value of CONTEXT and pgs the list CONTEXT.pages when the code runs.     *)
(* CONTEXT.new_page() suspends the caller; the page joins the pool when    *)
(* the call completes (NewPage).                                           *)
(***************************************************************************)
\* mutants of LimitReached: the limit compared off by one, either way
LimitReachedLate(n) == n > MAX_WINDOWS

LimitReachedEarly(n) == n >= MAX_WINDOWS - 1

\* line 105
LimitReached(n) == n >= MAX_WINDOWS

\* lines 101-106: open_new_window gets as far as CONTEXT.new_page()
OpenProceeds(c, pgs) == c # None /\ ~LimitReached(Len(pgs))

\* lines 102 and 111: the string open_new_window returns otherwise
OpenRefusal(c) == IF c = None THEN NotInitMsg ELSE LimitMsg

\* line 108, in open_new_window as called from the functions in `caller`
AwaitNewPage(s, c, caller) ==
    [s EXCEPT !.pc = "new_page", !.ctx = c,
              !.stack = Append(caller, "open_new_window")]

\* mutant of GotoLast: the first page is navigated
GotoFirst(s, pgs) ==
    IF Len(pgs) = 0
    THEN Done(s, Exc("IndexError: list index out of range"))
    ELSE [s EXCEPT !.pc = "goto", !.page = Head(pgs).id]

\* lines 133-134: page = CONTEXT.pages[-1]; await page.goto(...)
GotoLast(s, pgs) ==
    IF Len(pgs) = 0
    THEN Done(s, Exc("IndexError: list index out of range"))
    ELSE [s EXCEPT !.pc = "goto", !.page = Last(pgs).id]

\* open_new_window as a tool, lines 101-111
OpenNewWindow(s, c, pgs) ==
    IF OpenProceeds(c, pgs) THEN AwaitNewPage(s, c, <<>>)
    ELSE Done(s, Str(OpenRefusal(c)))

\* search_web_on_browser, lines 125-134, called from `caller`.  The string
\* a refused open_new_window returns on line 130 is dropped.
SearchWeb(s, c, pgs, caller) ==
    IF c = None THEN Done(s, Str(NotInitMsg))
    ELSE IF Len(pgs) = 0 /\ OpenProceeds(c, pgs)
    THEN AwaitNewPage(s, c, Append(caller, "search_web_on_browser"))
    ELSE GotoLast(s, pgs)

\* new_window_and_search, lines 151-152: whatever open_new_window returns
\* is dropped and search_web_on_browser is called
NewWindowAndSearch(s, c, pgs) ==
    IF OpenProceeds(c, pgs)
    THEN AwaitNewPage(s, c, <<"new_window_and_search">>)
    ELSE SearchWeb(s, c, pgs, <<"new_window_and_search">>)

\* mutant of CloseCurrent: the first page is closed
CloseCurrentFirst(s, c, pgs) ==
    IF c = None THEN Done(s, Str(NotInitMsg))
    ELSE IF Len(pgs) = 0 THEN Done(s, Str(NoWindowsMsg))
    ELSE [s EXCEPT !.pc = "close_page", !.page = Head(pgs).id]

\* close_current_window, lines 163-169
CloseCurrent(s, c, pgs) ==
    IF c = None THEN Done(s, Str(NotInitMsg))
    ELSE IF Len(pgs) = 0 THEN Done(s, Str(NoWindowsMsg))
    ELSE [s EXCEPT !.pc = "close_page", !.page = Last(pgs).id]

\* mutant of CloseAllIter: the loop runs over the live list, which loses
\* its head at every close, so that every other page is skipped
CloseAllIterLive(pgs) == [i \in 1..((Len(pgs) + 1) \div 2) |-> pgs[2 * i - 1].id]

\* line 184: the loop runs over the copy of the page list it was given
CloseAllIter(pgs) == [i \in 1..Len(pgs) |-> pgs[i].id]

\* close_all_windows, lines 181-186
CloseAll(s, c, pgs) ==
    IF c = None THEN Done(s, Str(NotInitMsg))
    ELSE IF CloseAllIter(pgs) = <<>> THEN Done(s, Str(ClosedAllMsg))
    ELSE [s EXCEPT !.pc = "close_each", !.iter = CloseAllIter(pgs)]

\* get_window_count, lines 197-200
WindowCount(s, c, pgs) ==
    IF c = None THEN Done(s, Str(NotInitMsg))
    ELSE Done(s, Str(CountMsg(Len(pgs))))

\* the tool's code after its `await initialize_browser()` returned
Body(s, c, pgs) ==
    CASE s.op = "open_new_window" -> OpenNewWindow(s, c, pgs)
      [] s.op = "search_web_on_browser" -> SearchWeb(s, c, pgs, <<>>)
      [] s.op = "new_window_and_search" -> NewWindowAndSearch(s, c, pgs)
      [] s.op = "close_current_window" -> CloseCurrent(s, c, pgs)
      [] s.op = "close_all_windows" -> CloseAll(s, c, pgs)
      [] s.op = "get_window_count" -> WindowCount(s, c, pgs)

\* a completed call is remembered as the last one
Finish(s) ==
    IF s.pc = "done" /\ history
    THEN [op |-> s.op, msg |-> s.ret.msg, n |-> Len(s.pre.pages),
          released |-> s.released]
    ELSE prev

\* what a call records of the state it starts in
Snapshot ==
    IF history
    THEN [pages |-> Pages(CONTEXT), cam |-> CAMERA, images |-> images,
          prev |-> prev]
    ELSE NoPre

\* mutant of NeedsInit: the session is constructed at every call
NeedsInitAlways == TRUE

\* line 73
NeedsInit == PLAYWRIGHT = None

\* The event loop runs a segment of a call only while mcp.run() serves
\* (line 320) and no call is running.  The one place where the model shows
\* a call in the middle of a segment is inside `with CAMERA_LOCK` (lines
\* 215-218), which holds no await.
LoopIdle == CAMERA_LOCK = None /\ hook.pc = "off"

(***************************************************************************)
(* Actions                                                                 *)
(***************************************************************************)
\* A browser tool is called in a free slot and runs to its first
\* suspension: initialize_browser (line 73), then the tool's body.
StartBrowser(p, qs) ==
    /\ LoopIdle
    /\ calls[p].pc \in {"idle", "done"}
    /\ \E o \in BrowserTools, query \in qs :
        /\ o \notin QueryTools => query = "cats"
        /\ LET s == [Idle EXCEPT !.op = o,
                          !.q = IF o \in QueryTools THEN query ELSE "",
                          !.pre = Snapshot]
               t == IF NeedsInit THEN [s EXCEPT !.pc = "pw_start"]
                    ELSE Body(s, CONTEXT, Pages(CONTEXT))
           IN /\ calls' = [calls EXCEPT ![p] = t]
              /\ prev' = Finish(t)
    /\ UNCHANGED <<session, ctxPages, camera, history,
                   shutdown>>

CallBrowser(p) == StartBrowser(p, Queries) /\ UNCHANGED nCalls

\* the same, for specifications that bound the number of calls
CallBrowserBounded(p) ==
    /\ nCalls < MaxConcCalls
    /\ nCalls' = nCalls + 1
    /\ StartBrowser(p, {"cats"})

\* line 74: async_playwright().start() completes; line 75 is called
PlaywrightStart(p) ==
    /\ LoopIdle
    /\ calls[p].pc = "pw_start"
    /\ nStarted < NumProcs
    /\ nStarted' = nStarted + 1
    /\ PLAYWRIGHT' = nStarted + 1
    /\ calls' = [calls EXCEPT ![p].pc = "launch", ![p].inst = nStarted + 1]
    /\ UNCHANGED <<BROWSER, CONTEXT, ctxPages, camera, prev, nCalls, history,
                   shutdown>>

\* line 75: firefox.launch() completes; line 76 is called
Launch(p) ==
    /\ LoopIdle
    /\ calls[p].pc = "launch"
    /\ BROWSER' = calls[p].inst
    /\ calls' = [calls EXCEPT ![p].pc = "new_context"]
    /\ UNCHANGED <<PLAYWRIGHT, CONTEXT, nStarted, ctxPages, camera, prev, nCalls,
                   history,
                   shutdown>>

\* line 76: new_context() completes, initialize_browser returns and the
\* tool's body runs to its next suspension
NewContext(p) ==
    /\ LoopIdle
    /\ calls[p].pc = "new_context"
    /\ CONTEXT' = calls[p].inst
    /\ LET t == Body([calls[p] EXCEPT !.inst = None], calls[p].inst,
                     Pages(calls[p].inst))
       IN /\ calls' = [calls EXCEPT ![p] = t]
          /\ prev' = Finish(t)
    /\ UNCHANGED <<PLAYWRIGHT, BROWSER, nStarted, ctxPages, camera, nCalls,
                   history,
                   shutdown>>

\* mutant of AfterOpened: the caller goes on with the page list as it was
\* before the page was created
AfterOpenedStale(s, c, pgs) ==
    LET caller == SubSeq(s.stack, 1, Len(s.stack) - 1)
        u == [s EXCEPT !.stack = caller, !.ctx = None]
        old == SubSeq(pgs, 1, Len(pgs) - 1)
    IN IF caller = <<>> THEN Done(u, Str(OpenedMsg))
       ELSE IF Last(caller) = "new_window_and_search"
       THEN SearchWeb(u, c, old, caller)
       ELSE GotoLast(u, old)

\* line 109: open_new_window returns "Opened a new window." to the
\* function that called it, and the tool goes on
AfterOpened(s, c, pgs) ==
    LET caller == SubSeq(s.stack, 1, Len(s.stack) - 1)
        u == [s EXCEPT !.stack = caller, !.ctx = None]
    IN IF caller = <<>> THEN Done(u, Str(OpenedMsg))
       ELSE IF Last(caller) = "new_window_and_search"
       THEN \* line 152; its initialize_browser returns at once
            SearchWeb(u, c, pgs, caller)
       ELSE \* line 133
            GotoLast(u, pgs)

\* line 108: CONTEXT.new_page() completes: the page is in the pool of the
\* context it was asked of, and the tool goes on
NewPage(p) ==
    /\ LoopIdle
    /\ calls[p].pc = "new_page"
    /\ LET pools == [ctxPages EXCEPT ![calls[p].ctx] =
                        Append(@, [id |-> FreshId, url |-> BLANK])]
           t == AfterOpened(calls[p], CONTEXT, PagesOf(pools, CONTEXT))
       IN Commit(pools, [calls EXCEPT ![p] = t])
    /\ prev' = Finish(calls'[p])
    /\ UNCHANGED <<session, camera, nCalls, history,
                   shutdown>>

\* line 134: page.goto() completes; line 136 is called
Goto(p) ==
    /\ LoopIdle
    /\ calls[p].pc = "goto"
    /\ IsOpen(calls[p].page)
    /\ ctxPages' = Navigate(ctxPages, calls[p].page, SearchUrl(calls[p].q))
    /\ calls' = [calls EXCEPT ![p].pc = "extract"]
    /\ UNCHANGED <<session, camera, prev, nCalls, history,
                   shutdown>>

UrlOf(id) ==
    LET c == CHOOSE c \in CtxIds : id \in PageIds(ctxPages[c])
        i == CHOOSE i \in 1..Len(ctxPages[c]) : ctxPages[c][i].id = id
    IN ctxPages[c][i].url

\* lines 136-137: the titles are read and the result returned
Extract(p) ==
    /\ LoopIdle
    /\ calls[p].pc = "extract"
    /\ IsOpen(calls[p].page)
    /\ calls' = [calls EXCEPT ![p] =
           Done(@, SearchResult(calls[p].q, Titles(UrlOf(calls[p].page))))]
    /\ prev' = Finish(calls'[p])
    /\ UNCHANGED <<session, ctxPages, camera, nCalls, history,
                   shutdown>>

\* lines 169-170: the page closes
ClosePage(p) ==
    /\ LoopIdle
    /\ calls[p].pc = "close_page"
    /\ Commit(RemovePage(ctxPages, calls[p].page),
              [calls EXCEPT ![p] = Done(@, Str(ClosedMsg))])
    /\ prev' = Finish(calls'[p])
    /\ UNCHANGED <<session, camera, nCalls, history,
                   shutdown>>

\* lines 184-186: one page of the loop closes; after the last one the
\* confirmation is returned
CloseEach(p) ==
    /\ LoopIdle
    /\ calls[p].pc = "close_each"
    /\ LET rest == Tail(calls[p].iter)
       IN Commit(RemovePage(ctxPages, Head(calls[p].iter)),
                 [calls EXCEPT ![p] =
                     IF rest = <<>> THEN Done(@, Str(ClosedAllMsg))
                     ELSE [@ EXCEPT !.iter = rest]])
    /\ prev' = Finish(calls'[p])
    /\ UNCHANGED <<session, camera, nCalls, history,
                   shutdown>>

BrowserStep(p) ==
    \/ PlaywrightStart(p)
    \/ Launch(p)
    \/ NewContext(p)
    \/ NewPage(p)
    \/ Goto(p)
    \/ Extract(p)
    \/ ClosePage(p)
    \/ CloseEach(p)

(***************************************************************************)
(* Camera.  No camera code suspends except the sleep of the warm-up loop   *)
(* (line 47): cv2 calls block, and the `with CAMERA_LOCK` block of         *)
(* capture_camera holds no await.                                          *)
(***************************************************************************)
CameraClosedMsg == "Camera closed."
CameraUnavailableMsg == "Error: Camera not available."
CaptureFailedMsg == "Error: Failed to capture image."
EncodeFailedMsg == "Error: Could not encode image."
CapturedMsg == "Camera image captured!"

\* CAMERA is not None and CAMERA.isOpened()
IsOpened(cam) == cam = "opened"

\* mutant of CleanupCamera: the handle is not reset to None
CleanupCameraKeepsHandle(cam) ==
    IF cam # "None"
    THEN [cam |-> "unopened", released |-> IF IsOpened(cam) THEN 1 ELSE 0]
    ELSE [cam |-> cam, released |-> 0]

\* cleanup_camera, lines 53-55: the new value of CAMERA and the number of
\* opened devices release() released
CleanupCamera(cam) ==
    IF cam # "None"
    THEN [cam |-> "None", released |-> IF IsOpened(cam) THEN 1 ELSE 0]
    ELSE [cam |-> cam, released |-> 0]

\* mutant of FreshName: the file name is fixed
StaleName(imgs) == "camera_1.png"

\* line 228: the uuid4 token is one no earlier file name holds
FreshName(imgs) ==
    LET n == CHOOSE n \in 1..(Cardinality(imgs) + 1) :
                 "camera_" \o ToString(n) \o ".png" \notin imgs
    IN "camera_" \o ToString(n) \o ".png"

\* the effect of a segment of a camera tool: the slot, CAMERA, the files
Effect(s, cam, imgs) == [call |-> s, cam |-> cam, images |-> imgs]

\* lines 216-218: the frames read inside `with CAMERA_LOCK`
CAPTURE_READS == 11

\* mutant of CaptureBody: the device is not released after a capture
CaptureBodyKeepsDevice(s, cam, outcome, imgs) ==
    LET r == [s EXCEPT !.reads = @ + CAPTURE_READS]
    IN IF outcome = "read_fail"
       THEN Effect(Done(r, Str(CaptureFailedMsg)), cam, imgs)
       ELSE IF outcome = "encode_fail"
       THEN Effect(Done(r, Str(EncodeFailedMsg)), cam, imgs)
       ELSE IF outcome = "save_error"
       THEN Effect(Done(r, Str("Error capturing camera image: OSError")),
                   cam, imgs)
       ELSE Effect(Done(r, [kind |-> "str", msg |-> CapturedMsg,
                            arg |-> FreshName(imgs), titles |-> <<>>]),
                   cam, imgs \cup {FreshName(imgs)})

\* mutant of CaptureBody: the device is released on every way out
CaptureBodyReleasesAlways(s, cam, outcome, imgs) ==
    LET r == [s EXCEPT !.reads = @ + CAPTURE_READS,
                       !.released = CleanupCamera(cam).released]
    IN IF outcome = "read_fail"
       THEN Effect(Done(r, Str(CaptureFailedMsg)), CleanupCamera(cam).cam, imgs)
       ELSE IF outcome = "encode_fail"
       THEN Effect(Done(r, Str(EncodeFailedMsg)), CleanupCamera(cam).cam, imgs)
       ELSE IF outcome = "save_error"
       THEN Effect(Done(r, Str("Error capturing camera image: OSError")),
                   CleanupCamera(cam).cam, imgs)
       ELSE Effect(Done(r, [kind |-> "str", msg |-> CapturedMsg,
                            arg |-> FreshName(imgs), titles |-> <<>>]),
                   CleanupCamera(cam).cam, imgs \cup {FreshName(imgs)})

\* capture_camera, lines 216-246, run inside the lock with CAMERA = cam, an
\* opened device: the reads, then the rest of the function
CaptureBody(s, cam, outcome, imgs) ==
    LET r == [s EXCEPT !.reads = @ + CAPTURE_READS]
    IN IF outcome = "read_fail"
       THEN \* line 221
            Effect(Done(r, Str(CaptureFailedMsg)), cam, imgs)
       ELSE IF outcome = "encode_fail"
       THEN \* line 234
            Effect(Done(r, Str(EncodeFailedMsg)), cam, imgs)
       ELSE IF outcome = "save_error"
       THEN \* lines 244-246
            Effect(Done([r EXCEPT !.released = CleanupCamera(cam).released],
                        Str("Error capturing camera image: OSError")),
                   CleanupCamera(cam).cam, imgs)
       ELSE \* lines 237-243
            Effect(Done([r EXCEPT !.released = CleanupCamera(cam).released],
                        [kind |-> "str", msg |-> CapturedMsg,
                         arg |-> FreshName(imgs), titles |-> <<>>]),
                   CleanupCamera(cam).cam, imgs \cup {FreshName(imgs)})

\* mutant of CaptureCheck: a VideoCapture that is not opened passes the test
CaptureCheckHandleOnly(s, cam, imgs) ==
    IF cam = "None" THEN Effect(Done(s, Str(CameraUnavailableMsg)), cam, imgs)
    ELSE Effect([s EXCEPT !.pc = "locked"], cam, imgs)

\* capture_camera, lines 211-215, run with CAMERA = cam: the test of the
\* device, then CAMERA_LOCK is acquired
CaptureCheck(s, cam, imgs) ==
    IF ~IsOpened(cam) THEN Effect(Done(s, Str(CameraUnavailableMsg)), cam, imgs)
    ELSE Effect([s EXCEPT !.pc = "locked"], cam, imgs)

\* one pass of the warm-up loop, lines 43-47, with CAMERA = cam, and what
\* follows it without suspending: `ok` is what a read of the opened
\* device returns
WarmupRead(s, cam, ok, imgs) ==
    IF cam = "None"
    THEN Effect(Done(s, Exc("AttributeError: 'NoneType' object has no attribute 'read'")),
                cam, imgs)
    ELSE IF IsOpened(cam) /\ ok
    THEN Effect([s EXCEPT !.pc = "warmup", !.i = @ + 1, !.reads = @ + 1],
                cam, imgs)
    ELSE \* line 46: the error string is dropped on line 209
         CaptureCheck([s EXCEPT !.dev = "warmup_failed",
                                !.reads = IF IsOpened(cam) THEN @ + 1 ELSE @],
                      cam, imgs)

\* mutant of InitializeCamera: the device is opened without the test of
\* line 37
InitializeCameraAlwaysOpens(s, cam, devOpens, ok, imgs) ==
    IF devOpens
    THEN WarmupRead([s EXCEPT !.dev = "opened"], "opened", ok, imgs)
    ELSE CaptureCheck([s EXCEPT !.dev = "absent"], "unopened", imgs)

\* initialize_camera, lines 37-48, and what follows it without suspending
InitializeCamera(s, cam, devOpens, ok, imgs) ==
    IF ~IsOpened(cam)
    THEN IF devOpens
         THEN WarmupRead([s EXCEPT !.dev = "opened"], "opened", ok, imgs)
         ELSE \* line 40: the error string is dropped on line 209
              CaptureCheck([s EXCEPT !.dev = "absent"], "unopened", imgs)
    ELSE CaptureCheck(s, cam, imgs)

\* close_camera, lines 204-205
CloseCamera(s, cam, imgs) ==
    Effect(Done([s EXCEPT !.released = CleanupCamera(cam).released],
                Str(CameraClosedMsg)),
           CleanupCamera(cam).cam, imgs)

\* a call that has made a warm-up read and has more of them to make
MidWarmup(s) == s.pc = "warmup" /\ s.i \in 1..(WARMUP_READS - 1)

\* the number of frames the segment of slot p with effect e reads
ReadsOf(p, e) ==
    e.call.reads - (IF calls[p].pc \in {"idle", "done"} THEN 0
                    ELSE calls[p].reads)

\* the number of devices the segment of slot p with effect e opens: line
\* 38 runs in the first segment of a call, if at all
OpensOf(p, e) ==
    IF calls[p].pc \in {"idle", "done"}
       /\ e.call.dev \in {"opened", "warmup_failed"}
    THEN 1 ELSE 0

\* mutant of LockAfter: a capture whose retained read fails returns with
\* the lock held
LockAfterKeptOnFailure(p, s) ==
    IF s.pc = "locked" \/ s.ret.msg = CaptureFailedMsg THEN p ELSE None

\* lines 215-218: CAMERA_LOCK after a segment that leaves the call as s.
\* The `with` block releases the lock on every way out of it.
LockAfter(p, s) == IF s.pc = "locked" THEN p ELSE None

\* the segment of slot p with effect e has run
Apply(p, e) ==
    /\ Cardinality(e.images) <= MaxImages
    /\ calls' = [q \in Procs |->
           IF q = p
           THEN [e.call EXCEPT !.overlap =
                    @ \/ (calls[p].intr /\ MidWarmup(calls[p])
                          /\ ReadsOf(p, e) > 0)]
           ELSE IF MidWarmup(calls[q]) /\ ReadsOf(p, e) > 0
           THEN [calls[q] EXCEPT !.intr = TRUE]
           ELSE calls[q]]
    /\ CAMERA' = e.cam
    /\ images' = e.images
    /\ CAMERA_LOCK' = LockAfter(p, e.call)
    /\ devices' = devices + OpensOf(p, e) - e.call.released
    /\ prev' = Finish(e.call)

\* a camera tool is called and runs to its first suspension, or into the
\* lock
StartCamera(p) ==
    /\ LoopIdle
    /\ calls[p].pc \in {"idle", "done"}
    /\ \E o \in CameraTools, devOpens \in BOOLEAN, ok \in BOOLEAN :
        LET s == [Idle EXCEPT !.op = o, !.pre = Snapshot]
        IN IF o = "close_camera" THEN Apply(p, CloseCamera(s, CAMERA, images))
           ELSE Apply(p, InitializeCamera(s, CAMERA, devOpens, ok, images))
    /\ UNCHANGED <<browser, history, shutdown>>

CallCamera(p) == StartCamera(p) /\ UNCHANGED nCalls

\* the same, for specifications that bound the number of calls
CallCameraBounded(p) ==
    /\ nCalls < MaxConcCalls
    /\ nCalls' = nCalls + 1
    /\ StartCamera(p)

CallCameraFew(p) ==
    /\ nCalls < MaxCamCalls
    /\ nCalls' = nCalls + 1
    /\ StartCamera(p)

\* line 47: the sleep is over; the loop goes on or ends (line 48), and
\* capture_camera goes on into the lock
Warmup(p) ==
    /\ LoopIdle
    /\ calls[p].pc = "warmup"
    /\ \E ok \in BOOLEAN :
        IF calls[p].i < WARMUP_READS
        THEN Apply(p, WarmupRead(calls[p], CAMERA, ok, images))
        ELSE Apply(p, CaptureCheck([calls[p] EXCEPT !.dev = "warmed"], CAMERA,
                                   images))
    /\ UNCHANGED <<browser, nCalls, history, shutdown>>

\* lines 216-246: the call inside the lock reads its frames, leaves the
\* lock and runs to its return
LockedReads(p) ==
    /\ CAMERA_LOCK = p
    /\ calls[p].pc = "locked"
    /\ \E outcome \in CaptureOutcomes :
        Apply(p, CaptureBody(calls[p], CAMERA, outcome, images))
    /\ UNCHANGED <<browser, nCalls, history, shutdown>>

(***************************************************************************)
(* Steps that only concurrent calls take: the page a call holds was closed *)
(* by another call while it was suspended.                                 *)
(***************************************************************************)
\* line 134: goto on a closed page raises, outside the try of line 135
GotoClosed(p) ==
    /\ LoopIdle
    /\ calls[p].pc = "goto"
    /\ ~IsOpen(calls[p].page)
    /\ calls' = [calls EXCEPT ![p] = Done(@, Exc("TargetClosedError"))]
    /\ prev' = Finish(calls'[p])
    /\ UNCHANGED <<session, ctxPages, camera, nCalls, history,
                   shutdown>>

\* lines 136-139: the locator raises on a closed page; the tool returns
\* the error string
ExtractClosed(p) ==
    /\ LoopIdle
    /\ calls[p].pc = "extract"
    /\ ~IsOpen(calls[p].page)
    /\ calls' = [calls EXCEPT ![p] =
           Done(@, Str("Error performing search: TargetClosedError"))]
    /\ prev' = Finish(calls'[p])
    /\ UNCHANGED <<session, ctxPages, camera, nCalls, history,
                   shutdown>>

(***************************************************************************)
(* Failing external steps.  Playwright raises when the driver or the       *)
(* browser cannot start, a page cannot be created, a navigation fails or   *)
(* times out, or a close fails.                                            *)
(***************************************************************************)
\* The awaited call of lines 74, 75, 76, 108, 134, 169 or 185 raises.  None
\* of these lines is inside a try that catches the exception (line 110
\* catches BrowserWindowLimitReachedError only), so it leaves the tool.
\* Globals assigned before the failing line keep their values.
AwaitRaises(p) ==
    /\ LoopIdle
    /\ calls[p].pc \in {"pw_start", "launch", "new_context", "new_page",
                        "goto", "close_page", "close_each"}
    /\ calls' = [calls EXCEPT ![p] = Done(@, Exc("Error: " \o calls[p].pc))]
    /\ prev' = Finish(calls'[p])
    /\ UNCHANGED <<session, ctxPages, camera, nCalls, history,
                   shutdown>>

\* lines 136-139: all_text_contents() raises; the tool returns the error
\* string
ExtractRaises(p) ==
    /\ LoopIdle
    /\ calls[p].pc = "extract"
    /\ calls' = [calls EXCEPT ![p] =
           Done(@, Str("Error performing search: Error: extract"))]
    /\ prev' = Finish(calls'[p])
    /\ UNCHANGED <<session, ctxPages, camera, nCalls, history,
                   shutdown>>

(***************************************************************************)
(* Shutdown: the finally block of __main__, lines 321-328.                 *)
(***************************************************************************)
\* The hook: where it is, the pages the loop of line 82 has left, the
\* number of times the cleanup has run to its end, and the number of
\* opened camera devices it released.
HookOff == [pc |-> "off", iter |-> <<>>, runs |-> 0, released |-> 0]

\* cleanup_browser from its first line to its first await, or to its end:
\* lines 81-88 with the globals as they are
CleanupBrowserFrom(h, stage) ==
    IF stage = "pages" /\ CONTEXT # None /\ Pages(CONTEXT) # <<>>
    THEN [h EXCEPT !.pc = "pages", !.iter = CloseAllIter(Pages(CONTEXT))]
    ELSE IF stage \in {"pages", "browser"} /\ BROWSER # None
    THEN [h EXCEPT !.pc = "browser", !.iter = <<>>]
    ELSE IF PLAYWRIGHT # None
    THEN [h EXCEPT !.pc = "stop", !.iter = <<>>]
    ELSE [h EXCEPT !.pc = "done", !.iter = <<>>, !.runs = @ + 1]

\* line 88, when cleanup_browser ran to its end without an await left
ResetSession(h) ==
    /\ PLAYWRIGHT' = (IF h.pc = "done" THEN None ELSE PLAYWRIGHT)
    /\ BROWSER' = (IF h.pc = "done" THEN None ELSE BROWSER)
    /\ CONTEXT' = (IF h.pc = "done" THEN None ELSE CONTEXT)

\* number of times the cleanup of lines 323-328 is run
MaxRuns == 2

\* mcp.run() has ended and the finally block runs, or the cleanup of the
\* block is run once more.  The calls in flight were cancelled with the
\* event loop.  Line 323 is cleanup_camera(); lines 324-328 run
\* cleanup_browser() to its first await.
Shutdown ==
    /\ CAMERA_LOCK = None
    /\ hook.pc \in {"off", "done", "raised"}
    /\ hook.runs < MaxRuns
    /\ hook.pc = "off" => hook.runs = 0
    /\ CAMERA' = CleanupCamera(CAMERA).cam
    /\ devices' = devices - CleanupCamera(CAMERA).released
    /\ hook' = CleanupBrowserFrom(
                  [hook EXCEPT !.released = @ + CleanupCamera(CAMERA).released],
                  "pages")
    /\ ResetSession(hook')
    /\ calls' = [p \in Procs |-> Idle]
    /\ UNCHANGED <<nStarted, ctxPages, images, CAMERA_LOCK, prev, nCalls,
                   history, stopped>>

\* lines 82-83: page.close() completes for one page of the loop
HookClosePage ==
    /\ hook.pc = "pages"
    /\ Commit(RemovePage(ctxPages, Head(hook.iter)), calls)
    /\ hook' = IF Tail(hook.iter) # <<>> THEN [hook EXCEPT !.iter = Tail(@)]
               ELSE CleanupBrowserFrom(hook, "browser")
    /\ ResetSession(hook')
    /\ UNCHANGED <<nStarted, camera, prev, nCalls, history, stopped>>

\* line 85: BROWSER.close() completes
HookCloseBrowser ==
    /\ hook.pc = "browser"
    /\ hook' = CleanupBrowserFrom(hook, "stop")
    /\ ResetSession(hook')
    /\ UNCHANGED <<nStarted, ctxPages, camera, calls, prev, nCalls, history,
                   stopped>>

\* lines 87-88: PLAYWRIGHT.stop() completes and the globals are reset
HookStop ==
    /\ hook.pc = "stop"
    /\ stopped' = [stopped EXCEPT ![PLAYWRIGHT] = @ + 1]
    /\ hook' = [hook EXCEPT !.pc = "done", !.runs = @ + 1]
    /\ ResetSession(hook')
    /\ UNCHANGED <<nStarted, ctxPages, camera, calls, prev, nCalls, history>>

\* The awaited call of line 83, 85 or 87 raises: cleanup_browser has no
\* try, so the exception leaves it and line 88 is not reached.
HookRaises ==
    /\ hook.pc \in {"pages", "browser", "stop"}
    /\ hook' = [hook EXCEPT !.pc = "raised", !.iter = <<>>, !.runs = @ + 1]
    /\ UNCHANGED <<browser, camera, calls, prev, nCalls, history, stopped>>

HookStep ==
    \/ HookClosePage
    \/ HookCloseBrowser
    \/ HookStop

(***************************************************************************)
(* Specifications                                                          *)
(***************************************************************************)
InitState ==
    /\ PLAYWRIGHT = None
    /\ BROWSER = None
    /\ CONTEXT = None
    /\ nStarted = 0
    /\ ctxPages = [c \in CtxIds |-> <<>>]
    /\ CAMERA = "None"
    /\ CAMERA_LOCK = None
    /\ devices = 0
    /\ images = {}
    /\ hook = HookOff
    /\ stopped = [c \in CtxIds |-> 0]
    /\ calls = [p \in Procs |-> Idle]
    /\ prev = NoPrev
    /\ nCalls = 0

Init == InitState /\ history = TRUE

\* browser tools called one after another: each call returns before the
\* next one starts, and every external step succeeds
Next ==
    \/ CallBrowser(1)
    \/ BrowserStep(1)

Spec == Init /\ [][Next]_vars

\* The state a run of Spec reaches by opening k windows one after
\* another: the session is up and k blank pages are open.
Opened(k) ==
    /\ PLAYWRIGHT = 1
    /\ BROWSER = 1
    /\ CONTEXT = 1
    /\ nStarted = 1
    /\ ctxPages = [c \in CtxIds |->
                      IF c = 1 THEN [i \in 1..k |-> [id |-> i, url |-> BLANK]]
                      ELSE <<>>]
    /\ CAMERA = "None"
    /\ CAMERA_LOCK = None
    /\ devices = 0
    /\ images = {}
    /\ hook = HookOff
    /\ stopped = [c \in CtxIds |-> 0]
    /\ calls = [p \in Procs |-> Idle]
    /\ prev = NoPrev
    /\ nCalls = 0

\* browser tools called concurrently: up to NumProcs calls in flight,
\* interleaved at every suspension point, starting with the session not
\* yet created or with 0..MAX_WINDOWS windows open; every external step
\* succeeds
InitConc ==
    /\ history = FALSE
    /\ InitState \/ \E k \in 0..MAX_WINDOWS : Opened(k)

NextConc ==
    \E p \in Procs :
        \/ CallBrowserBounded(p)
        \/ BrowserStep(p)
        \/ GotoClosed(p)
        \/ ExtractClosed(p)

SpecConc == InitConc /\ [][NextConc]_vars

\* camera tools called one after another
NextCam ==
    \/ CallCamera(1)
    \/ Warmup(1)
    \/ LockedReads(1)

SpecCam == Init /\ [][NextCam]_vars

\* camera tools called concurrently: up to NumProcs calls in flight,
\* interleaved at the sleeps of the warm-up loop
NextCamConc ==
    \E p \in Procs :
        \/ CallCamera(p)
        \/ Warmup(p)
        \/ LockedReads(p)

InitCamConc ==
    /\ history = FALSE
    /\ InitState

SpecCamConc == InitCamConc /\ [][NextCamConc]_vars

\* browser tools called one after another, where every external step can
\* fail
NextFault ==
    \/ CallBrowser(1)
    \/ BrowserStep(1)
    \/ AwaitRaises(1)
    \/ ExtractRaises(1)

SpecFault == Init /\ [][NextFault]_vars

\* the server until and through its shutdown: browser tools called
\* concurrently and camera tools one after another, then the finally
\* block; every external step succeeds
NextShutdown ==
    \/ \E p \in Procs : CallBrowserBounded(p) \/ BrowserStep(p)
    \/ CallCameraBounded(1)
    \/ Warmup(1)
    \/ LockedReads(1)
    \/ Shutdown
    \/ HookStep

SpecShutdown == InitCamConc /\ [][NextShutdown]_vars

\* the same with browser tools called one after another, where the awaited
\* calls of cleanup_browser can fail
NextRelease ==
    \/ CallBrowserBounded(1)
    \/ BrowserStep(1)
    \/ Shutdown
    \/ HookStep
    \/ HookRaises

SpecRelease == InitConc /\ [][NextRelease]_vars

\* camera tools called concurrently, a bounded number of calls
NextCamBounded ==
    \E p \in Procs :
        \/ CallCameraFew(p)
        \/ Warmup(p)
        \/ LockedReads(p)

SpecCamBounded == InitCamConc /\ [][NextCamBounded]_vars

\* every state the server is in between calls made one after another with
\* the session not created or created: no call in flight, 0..MAX_WINDOWS
\* pages open
InitLazy ==
    /\ history = TRUE
    /\ InitState \/ \E k \in 0..MAX_WINDOWS : Opened(k)

\* browser tools and camera tools called one after another, a bounded
\* number of calls
NextLazy ==
    \/ CallBrowserBounded(1)
    \/ BrowserStep(1)
    \/ CallCameraBounded(1)
    \/ Warmup(1)
    \/ LockedReads(1)

SpecLazy == InitLazy /\ [][NextLazy]_vars

\* browser tools and camera tools called concurrently; every external step
\* succeeds
NextScopes ==
    \E p \in Procs :
        \/ CallBrowserBounded(p)
        \/ BrowserStep(p)
        \/ GotoClosed(p)
        \/ ExtractClosed(p)
        \/ CallCameraBounded(p)
        \/ Warmup(p)
        \/ LockedReads(p)

SpecScopes == InitCamConc /\ [][NextScopes]_vars

(***************************************************************************)
(* Claims                                                                  *)
(***************************************************************************)
\* the pool the tools see: CONTEXT.pages
Pool == Pages(CONTEXT)

Returned(p, o) == calls[p].pc = "done" /\ calls[p].op = o

\* C1: with calls made one after another, the number of open pages never
\* exceeds MAX_WINDOWS, and an open_new_window call made with MAX_WINDOWS
\* pages open returns the limit message and leaves the pool as it was.
C1_WindowLimitSequential ==
    /\ \A c \in CtxIds : Len(ctxPages[c]) <= MAX_WINDOWS
    /\ \A p \in Procs :
        Returned(p, "open_new_window") /\ Len(calls[p].pre.pages) = MAX_WINDOWS
        => /\ calls[p].ret = Str(LimitMsg)
           /\ Pool = calls[p].pre.pages

C1_Witness ==
    \E p \in Procs :
        /\ Returned(p, "open_new_window")
        /\ Len(calls[p].pre.pages) = MAX_WINDOWS
        /\ calls[p].ret = Str(LimitMsg)
        /\ Len(Pool) = MAX_WINDOWS

\* C6 (the claim as stated): a new_window_and_search call made with
\* MAX_WINDOWS pages open returns the limit message, navigates no page and
\* leaves the pool and every page's location as they were.
C6_FullPoolSearchRefused ==
    \A p \in Procs :
        calls[p].op = "new_window_and_search"
        /\ Len(calls[p].pre.pages) = MAX_WINDOWS
        => /\ calls[p].pc \notin {"goto", "extract"}
           /\ Pool = calls[p].pre.pages
           /\ calls[p].pc = "done" => calls[p].ret = Str(LimitMsg)

\* C7: a get_window_count call that follows a close_all_windows call, with
\* no call in between, reports 0 windows, whatever pool the
\* close_all_windows call found; close_all_windows leaves no page open.
C7_CloseAllThenCountIsZero ==
    \A p \in Procs :
        /\ Returned(p, "close_all_windows") => Pool = <<>>
        /\ Returned(p, "get_window_count")
           /\ calls[p].pre.prev.op = "close_all_windows"
           => calls[p].ret = Str("Currently 0 window(s) open.")

C7_Witness ==
    \E p \in Procs :
        /\ Returned(p, "get_window_count")
        /\ calls[p].pre.prev = [op |-> "close_all_windows",
                                msg |-> ClosedAllMsg, n |-> MAX_WINDOWS,
                                released |-> 0]
        /\ calls[p].ret = Str("Currently 0 window(s) open.")

\* C9: with calls made one after another, open_new_window succeeds and
\* adds exactly one page whenever fewer than MAX_WINDOWS pages are open,
\* fails with the limit message at MAX_WINDOWS pages, and
\* close_current_window on a non-empty pool removes exactly one page.
C9_CapacityFreedByClosing ==
    \A p \in Procs :
        /\ Returned(p, "open_new_window")
           => IF Len(calls[p].pre.pages) < MAX_WINDOWS
              THEN /\ calls[p].ret = Str(OpenedMsg)
                   /\ Len(Pool) = Len(calls[p].pre.pages) + 1
                   /\ SubSeq(Pool, 1, Len(Pool) - 1) = calls[p].pre.pages
              ELSE /\ calls[p].ret = Str(LimitMsg)
                   /\ Len(Pool) = MAX_WINDOWS
        /\ Returned(p, "close_current_window") /\ calls[p].pre.pages # <<>>
           => /\ calls[p].ret = Str(ClosedMsg)
              /\ Len(Pool) = Len(calls[p].pre.pages) - 1

\* the last step of the scenario: a close_current_window call made at
\* MAX_WINDOWS pages has returned, and the open_new_window call after it
\* succeeded and brought the count back to MAX_WINDOWS
C9_Witness ==
    \E p \in Procs :
        /\ Returned(p, "open_new_window")
        /\ calls[p].pre.prev = [op |-> "close_current_window",
                                msg |-> ClosedMsg, n |-> MAX_WINDOWS,
                                released |-> 0]
        /\ Len(calls[p].pre.pages) = MAX_WINDOWS - 1
        /\ calls[p].ret = Str(OpenedMsg)
        /\ Len(Pool) = MAX_WINDOWS

\* C10: called with no page open and the same query, search_web_on_browser
\* and new_window_and_search end alike: exactly one page is open, it shows
\* the search URL of the query, and the call returns the result string of
\* that query.
C10_SearchEquivalentOnEmptyPool ==
    \A p \in Procs :
        calls[p].pc = "done" /\ calls[p].op \in QueryTools
        /\ calls[p].pre.pages = <<>>
        => /\ Len(Pool) = 1
           /\ Pool[1].url = SEARCH_URL \o calls[p].q
           /\ calls[p].ret =
                 SearchResult(calls[p].q, Titles(SEARCH_URL \o calls[p].q))

C10_Witness ==
    \E p \in Procs :
        /\ Returned(p, "search_web_on_browser")
        /\ calls[p].pre.pages = <<>>
        /\ calls[p].pre.prev.op = "close_all_windows"
        /\ calls[p].ret = SearchResult("cats", <<"c1", "c2", "c3", "c4", "c5">>)
        /\ Pool = <<[id |-> 1, url |-> SEARCH_URL \o "cats"]>>

\* C2 (the claim as stated): under any interleaving of concurrent browser
\* tool calls the number of open pages stays between 0 and MAX_WINDOWS.
C2_PoolWithinLimitConcurrent ==
    \A c \in CtxIds : Len(ctxPages[c]) \in 0..MAX_WINDOWS

\* C3 (the claim as stated): every capture_camera call, whatever runs
\* concurrently with it, ends by returning a string, never with an
\* exception raised by reading a camera handle that was reset to None.
C3_CaptureAlwaysReturnsString ==
    \A p \in Procs :
        Returned(p, "capture_camera") => calls[p].ret.kind = "str"

\* C4 (the claim as stated): when browser tool calls arrive concurrently
\* with the session not yet created, only one Playwright / browser /
\* context construction is executed.
C4_SingleSessionConstruction == nStarted <= 1

\* C5 (the claim as stated): every tool call ends by returning a string,
\* whatever the outcome of its external steps; no exception leaves a tool.
C5_ToolsAlwaysReturnString ==
    \A p \in Procs : calls[p].pc = "done" => calls[p].ret.kind = "str"

\* C8: close_camera returns "Camera closed." from every camera state and
\* leaves CAMERA None; it releases the device exactly when it found it
\* opened, and a close_camera call that follows a close_camera call finds
\* CAMERA None, releases nothing and leaves CAMERA as it was.
C8_CloseCameraIdempotent ==
    \A p \in Procs :
        Returned(p, "close_camera")
        => /\ calls[p].ret = Str("Camera closed.")
           /\ CAMERA = "None"
           /\ calls[p].released = IF calls[p].pre.cam = "opened" THEN 1 ELSE 0
           /\ calls[p].pre.prev.op = "close_camera"
              => /\ calls[p].pre.cam = "None"
                 /\ calls[p].released = 0
                 /\ calls[p].released + calls[p].pre.prev.released <= 1

\* the second of two close_camera calls in a row, the first of which
\* released the opened device
C8_Witness ==
    \E p \in Procs :
        /\ Returned(p, "close_camera")
        /\ calls[p].pre.prev = [op |-> "close_camera", msg |-> CameraClosedMsg,
                                n |-> 0, released |-> 1]
        /\ calls[p].released = 0
        /\ calls[p].ret = Str("Camera closed.")
        /\ CAMERA = "None"

\* C11: a capture_camera call that finds the device absent (VideoCapture(0)
\* does not open) returns the camera-unavailable message, reads no frame,
\* writes no file and leaves no opened device in CAMERA.
C11_DeviceAbsentFails ==
    \A p \in Procs :
        calls[p].op = "capture_camera" /\ calls[p].dev = "absent"
        => /\ calls[p].pc = "done"
           /\ calls[p].ret = Str("Error: Camera not available.")
           /\ calls[p].reads = 0
           /\ images = calls[p].pre.images
           /\ ~IsOpened(CAMERA)
           /\ CAMERA_LOCK = None

\* the device was there for one capture, which wrote a file, and is absent
\* for the next one
C11_Witness ==
    \E p \in Procs :
        /\ Returned(p, "capture_camera")
        /\ calls[p].dev = "absent"
        /\ calls[p].pre.prev.msg = CapturedMsg
        /\ calls[p].ret = Str(CameraUnavailableMsg)
        /\ images = {"camera_1.png"}
        /\ CAMERA = "unopened"

\* C15: when a capture_camera call returns success CAMERA is None and the
\* opened device was released by the call; the capture_camera call after
\* it finds CAMERA None, opens the device again and reads warm-up frames
\* before its capture frames.
C15_ClosedAfterCapture ==
    \A p \in Procs :
        Returned(p, "capture_camera") /\ calls[p].ret.msg = CapturedMsg
        => /\ CAMERA = "None"
           /\ calls[p].released = 1
           /\ calls[p].pre.prev.msg = CapturedMsg
              => /\ calls[p].pre.cam = "None"
                 /\ calls[p].dev \in {"warmed", "warmup_failed"}
                 /\ calls[p].reads > CAPTURE_READS

\* the second of two successful captures in a row: it made all the warm-up
\* reads and the capture reads
C15_Witness ==
    \E p \in Procs :
        /\ Returned(p, "capture_camera")
        /\ calls[p].ret.msg = CapturedMsg
        /\ calls[p].pre.prev.op = "capture_camera"
        /\ calls[p].pre.prev.msg = CapturedMsg
        /\ calls[p].dev = "warmed"
        /\ calls[p].reads = WARMUP_READS + CAPTURE_READS
        /\ CAMERA = "None"

\* C16 (the claim as stated): no call reads from the device between the
\* first and the last read of another call's read sequence.
C16_ReadSequencesExclusive ==
    \A p \in Procs : ~calls[p].overlap

\* C19 (the claim as stated): when a warm-up read fails, the
\* capture_camera call that started the warm-up returns the
\* camera-unavailable message without capture reads and without writing a
\* file, and the camera is not open.
C19_WarmupFailureAborts ==
    \A p \in Procs :
        calls[p].op = "capture_camera" /\ calls[p].dev = "warmup_failed"
        => /\ calls[p].pc = "done"
           /\ calls[p].ret = Str(CameraUnavailableMsg)
           /\ calls[p].reads <= WARMUP_READS
           /\ images = calls[p].pre.images
           /\ ~IsOpened(CAMERA)

\* C12 (the claim as stated): no browser tool call returns "Browser context
\* is not initialized.", also not a call that arrives while another call's
\* initialization is in flight.
C12_NeverNotInitialized ==
    \A p \in Procs :
        calls[p].pc = "done" /\ calls[p].op \in BrowserTools
        => calls[p].ret # Str(NotInitMsg)

\* C13 (the claim as stated): the call that follows a call whose
\* initialization failed at the browser launch or at the context creation
\* attempts the initialization again, and does not find the session
\* missing.
C13_FailedInitRetried ==
    \A p \in Procs :
        /\ calls[p].op \in BrowserTools
        /\ calls[p].pre.prev.msg \in {"Error: launch", "Error: new_context"}
        => /\ calls[p].pc = "done" => calls[p].ret.msg # NotInitMsg
           /\ PLAYWRIGHT = None => calls[p].pc = "pw_start"

\* C20 (the claim as stated): a close_all_windows call made with pages open
\* returns its confirmation and leaves the pool empty, also when the close
\* of a page fails.
C20_CloseAllBestEffort ==
    \A p \in Procs :
        Returned(p, "close_all_windows") /\ calls[p].pre.pages # <<>>
        => /\ calls[p].ret = Str("Closed all browser windows.")
           /\ Pool = <<>>

\* C14 (the claim as stated): no resource is released twice, also not when
\* the shutdown cleanup runs a second time, and when the cleanup has run
\* the camera and the browser session are uninitialized and every
\* Playwright instance that was started has been stopped exactly once.
C14_ShutdownReleasesOnce ==
    /\ \A i \in CtxIds : stopped[i] <= 1
    /\ hook.released <= 1
    /\ hook.pc = "done"
       => /\ CAMERA = "None"
          /\ PLAYWRIGHT = None /\ BROWSER = None /\ CONTEXT = None
          /\ \A i \in 1..nStarted : stopped[i] = 1

\* C18 (the claim as stated): when cleanup_browser has ended, with or
\* without a failing step, PLAYWRIGHT, BROWSER and CONTEXT are None, and no
\* failure of a step leaves cleanup_browser as an exception.
C18_ReleaseAlwaysResets ==
    /\ hook.pc # "raised"
    /\ hook.pc \in {"done", "raised"}
       => /\ CAMERA = "None"
          /\ PLAYWRIGHT = None /\ BROWSER = None /\ CONTEXT = None

\* a browser tool call suspended at an awaited Playwright call
BrowserPcs == {"pw_start", "launch", "new_context", "new_page", "goto",
               "extract", "close_page", "close_each"}

\* C17 (the claim as stated): in every reachable state a browser tool call
\* in flight can take its next step, whether or not a capture_camera call
\* is inside the camera lock, and a camera tool call in flight can take
\* its next step whatever browser tool calls are in flight.
C17_IndependentScopes ==
    \A p \in Procs :
        /\ calls[p].pc \in BrowserPcs
           => ENABLED (BrowserStep(p) \/ GotoClosed(p) \/ ExtractClosed(p))
        /\ calls[p].pc = "warmup" /\ CAMERA_LOCK = None => ENABLED Warmup(p)
        /\ calls[p].pc = "locked" => ENABLED LockedReads(p)

\* C21 (the claim as stated): a search_web_on_browser call made with a page
\* open that does not return search results, because the navigation or
\* the extraction failed, returns a string, and the number of open pages
\* is the same as before the call.
C21_SearchFailureIsString ==
    \A p \in Procs :
        /\ Returned(p, "search_web_on_browser")
        /\ calls[p].pre.pages # <<>>
        /\ calls[p].ret.msg # "Searching for {query}. Top results are: "
        => /\ calls[p].ret.kind = "str"
           /\ Len(Pool) = Len(calls[p].pre.pages)

\* C22: close_current_window with no page open returns "No open windows to
\* close." and leaves the pool empty; with pages open it returns "Closed
\* the current window." and the pool is the pool of before without its
\* last page, the other pages and their locations in the same order.
C22_CloseCurrentRemovesLast ==
    \A p \in Procs :
        Returned(p, "close_current_window")
        => IF calls[p].pre.pages = <<>>
           THEN /\ calls[p].ret = Str("No open windows to close.")
                /\ Pool = <<>>
           ELSE /\ calls[p].ret = Str("Closed the current window.")
                /\ Pool = SubSeq(calls[p].pre.pages, 1,
                                 Len(calls[p].pre.pages) - 1)

\* the last of MAX_WINDOWS pages was closed, and it showed another
\* location than the first
C22_Witness ==
    \E p \in Procs :
        /\ Returned(p, "close_current_window")
        /\ Len(calls[p].pre.pages) = MAX_WINDOWS
        /\ calls[p].pre.pages[1].url = SEARCH_URL \o "cats"
        /\ calls[p].pre.pages[MAX_WINDOWS].url = BLANK
        /\ Len(Pool) = MAX_WINDOWS - 1
        /\ Pool[1].url = SEARCH_URL \o "cats"

\* C23: search_web_on_browser called with pages open navigates the last
\* page of the pool to the search URL of its query and nothing else: no
\* page is created or closed, and every other page keeps its place and
\* its location, while the call runs and when it has returned.
C23_SearchNavigatesLastOnly ==
    \A p \in Procs :
        calls[p].op = "search_web_on_browser" /\ calls[p].pre.pages # <<>>
        => LET old == calls[p].pre.pages
               n == Len(old)
           IN /\ Len(Pool) = n
              /\ \A i \in 1..(n - 1) : Pool[i] = old[i]
              /\ Pool[n].id = old[n].id
              /\ calls[p].pc \in {"goto", "extract", "done"}
              /\ calls[p].pc = "goto" => Pool[n] = old[n] /\ calls[p].page = old[n].id
              /\ calls[p].pc \in {"extract", "done"}
                 => Pool[n].url = SEARCH_URL \o calls[p].q

\* two pages, the first showing the results for "cats": the search for
\* "dogs" navigated the second
C23_Witness ==
    \E p \in Procs :
        /\ Returned(p, "search_web_on_browser")
        /\ calls[p].q = "dogs"
        /\ calls[p].pre.pages = <<[id |-> 1, url |-> SEARCH_URL \o "cats"],
                                 [id |-> 2, url |-> BLANK]>>
        /\ Pool = <<[id |-> 1, url |-> SEARCH_URL \o "cats"],
                    [id |-> 2, url |-> SEARCH_URL \o "dogs"]>>

\* C24 (the claim as stated): every get_window_count call returns the
\* number of open pages as text; it never fails because the session was
\* not yet started.
C24_CountNeverFails ==
    \A p \in Procs :
        Returned(p, "get_window_count")
        => \E n \in 0..(MAX_WINDOWS + NumProcs) :
               calls[p].ret = Str(CountMsg(n))

\* C27 (the claim as stated): two close_current_window calls in flight
\* never have the same page as their target, so that each of them closes
\* a page of its own.
C27_CloseTargetsDistinct ==
    \A p, q \in Procs :
        /\ p # q
        /\ calls[p].op = "close_current_window" /\ calls[p].pc = "close_page"
        /\ calls[q].op = "close_current_window" /\ calls[q].pc = "close_page"
        => calls[p].page # calls[q].page

\* slot p starts a call in this step
Starts(p) == nCalls' = nCalls + 1 /\ calls'[p] # calls[p]

SessionReady == PLAYWRIGHT # None /\ BROWSER # None /\ CONTEXT # None

\* C25: a browser tool called with the session ready constructs nothing:
\* its initialize_browser starts no Playwright, launches no browser and
\* creates no context, and leaves the globals and the pool as they are; a
\* capture_camera called with the device open opens no device and makes no
\* warm-up read, and leaves CAMERA as it is.
C25_LazyInitNoEffectWhenReady ==
    /\ [](\A p \in Procs :
             calls[p].op = "capture_camera" /\ calls[p].dev = "untried"
             => /\ calls[p].pc # "warmup"
                /\ calls[p].reads \in {0, CAPTURE_READS})
    /\ [][\A p \in Procs :
             Starts(p)
             => /\ SessionReady /\ calls'[p].op \in BrowserTools
                   => /\ calls'[p].pc \notin {"pw_start", "launch",
                                              "new_context"}
                      /\ session' = session
                      /\ ctxPages' = ctxPages
                /\ IsOpened(CAMERA) /\ calls'[p].op = "capture_camera"
                   => /\ calls'[p].dev = "untried"
                      /\ calls'[p].reads = 0
                      /\ CAMERA' = CAMERA
                      /\ devices' = devices]_vars

\* a capture that found the device open (left so by a capture that
\* failed) and made its capture reads only, after a get_window_count that
\* found the session ready with two pages
C25_Witness ==
    \E p \in Procs :
        /\ Returned(p, "capture_camera")
        /\ calls[p].pre.cam = "opened"
        /\ calls[p].dev = "untried"
        /\ calls[p].reads = CAPTURE_READS
        /\ calls[p].pre.prev.op = "get_window_count"
        /\ calls[p].pre.prev.msg = CountMsg(2)
        /\ nStarted = 1
        /\ Len(Pool) = 2

\* the file names of line 228
CameraNames == {"camera_" \o ToString(n) \o ".png" : n \in 1..(MaxImages + 1)}

\* C26: a capture_camera call that returns success has written one file,
\* under a name of the form camera_<token>.png that no file had before,
\* and has changed no other file; a call that returns the
\* camera-unavailable, read-failure or encode-failure message has written
\* no file; two calls that returned success returned different names.
C26_CaptureWritesOnceFresh ==
    /\ [][\A p \in Procs :
             /\ calls'[p] # calls[p]
             /\ calls'[p].pc = "done"
             /\ calls'[p].op = "capture_camera"
             => IF calls'[p].ret.msg = CapturedMsg
                THEN /\ calls'[p].ret.arg \in CameraNames
                     /\ calls'[p].ret.arg \notin images
                     /\ images' = images \cup {calls'[p].ret.arg}
                ELSE calls'[p].ret.msg \in {CameraUnavailableMsg,
                                           CaptureFailedMsg, EncodeFailedMsg}
                     => images' = images]_vars
    /\ [](\A p, q \in Procs :
             /\ p # q
             /\ Returned(p, "capture_camera") /\ calls[p].ret.msg = CapturedMsg
             /\ Returned(q, "capture_camera") /\ calls[q].ret.msg = CapturedMsg
             => calls[p].ret.arg # calls[q].ret.arg)

\* two captures in two slots have succeeded
C26_Witness ==
    /\ Returned(1, "capture_camera") /\ calls[1].ret.msg = CapturedMsg
    /\ Returned(2, "capture_camera") /\ calls[2].ret.msg = CapturedMsg
    /\ images = {calls[1].ret.arg, calls[2].ret.arg}
    /\ Cardinality(images) = 2

\* C28: CAMERA_LOCK is held exactly while a capture_camera call is inside
\* lines 215-218, never across a suspension or a return; the lock is
\* taken only when it is free, so that no call waits for it; the call
\* that holds it can always go on, and it makes all its reads and returns
\* in the step that releases the lock.
C28_LockOnlyDuringReads ==
    /\ [](\A p \in Procs :
             /\ CAMERA_LOCK = p <=> calls[p].pc = "locked"
             /\ calls[p].pc = "locked"
                => calls[p].op = "capture_camera" /\ ENABLED LockedReads(p))
    /\ [][\A p \in Procs :
             /\ CAMERA_LOCK' = p /\ CAMERA_LOCK # p => CAMERA_LOCK = None
             /\ CAMERA_LOCK = p /\ CAMERA_LOCK' # p
                => /\ calls'[p].reads = calls[p].reads + CAPTURE_READS
                   /\ calls'[p].pc = "done"
                   /\ CAMERA_LOCK' = None]_vars

\* a capture is inside the lock while another capture sleeps in its
\* warm-up
C28_Witness ==
    \E p, q \in Procs :
        /\ CAMERA_LOCK = p
        /\ calls[p].pc = "locked"
        /\ calls[q].pc = "warmup"

\* C29: under any interleaving of capture_camera and close_camera calls
\* the opened devices that have not been released are the one CAMERA
\* holds, if it holds an opened one, and no other: never two, and none
\* that was dropped from CAMERA without a release.
C29_AtMostOneDevice ==
    devices = (IF IsOpened(CAMERA) THEN 1 ELSE 0)

\* two captures in flight on one opened device: the first opened it and
\* sleeps in its warm-up, the second found it open and is inside the lock
C29_Witness ==
    \E p, q \in Procs :
        /\ calls[p].pc = "warmup" /\ calls[p].dev = "opened"
        /\ calls[q].pc = "locked" /\ calls[q].dev = "untried"
        /\ devices = 1

\* C30: a capture_camera call that returns "Error: Failed to capture
\* image." or "Error: Could not encode image." has released nothing and
\* leaves the device open, and the capture after it finds the device open
\* and does not open it again; a call that returns success or the error
\* of the save step has released the device and left CAMERA None; a call
\* that returns the camera-unavailable message has released nothing.
C30_FailedCaptureKeepsDevice ==
    \A p \in Procs :
        Returned(p, "capture_camera")
        => /\ calls[p].ret.msg \in {CaptureFailedMsg, EncodeFailedMsg}
              => calls[p].released = 0 /\ CAMERA = "opened"
           /\ calls[p].ret.msg \in {CapturedMsg,
                                    "Error capturing camera image: OSError"}
              => calls[p].released = 1 /\ CAMERA = "None"
           /\ calls[p].ret.msg = CameraUnavailableMsg
              => calls[p].released = 0
           /\ calls[p].pre.prev.msg \in {CaptureFailedMsg, EncodeFailedMsg}
              => calls[p].pre.cam = "opened" /\ calls[p].dev = "untried"

\* a capture whose encoding failed, and the capture after it, which found
\* the device open and succeeded with the capture reads alone
C30_Witness ==
    \E p \in Procs :
        /\ Returned(p, "capture_camera")
        /\ calls[p].pre.prev.op = "capture_camera"
        /\ calls[p].pre.prev.msg = EncodeFailedMsg
        /\ calls[p].pre.prev.released = 0
        /\ calls[p].dev = "untried"
        /\ calls[p].reads = CAPTURE_READS
        /\ calls[p].ret.msg = CapturedMsg
        /\ calls[p].released = 1

====
